---- MODULE Spec2Model ----
(***************************************************************************)
(* Model of the agentic-76ce2e54 web application: the tool registry and    *)
(* its three tools (lib/tools.ts), the plan-then-execute orchestration     *)
(* (lib/agent.ts) and the inbound POST handler (app/api/agent/route.ts).   *)
(*                                                                         *)
(* JavaScript strings are TLA+ strings; TLC evaluates Len, \o, SubSeq,     *)
(* Head and Tail on them, so every string function below works on the      *)
(* characters, as the code does.  An optional property of a JavaScript     *)
(* object (error?:, a property the LLM left out) is a record field that    *)
(* is present or absent.                                                   *)
(***************************************************************************)
EXTENDS Integers, Sequences, FiniteSets, TLC

VARIABLES
    \* ---- process environment and the inbound request (route.ts) ----
    apiKey,      \* process.env.OPENAI_API_KEY is set
    httpPc,      \* position of the POST handler
    body,        \* what the request carries
    response,    \* what POST answered: [status, body], or NoResponse
    agentCalls,  \* number of calls of runAgentTask made by POST
    \* ---- runAgentTask / executePlan (agent.ts) ----
    pc,          \* phase of runAgentTask
    task,        \* runAgentTask's argument
    payload,     \* the PlanPayload the planner produced
    stepIdx,     \* executePlan: index of the step the for-loop is at
    executions,  \* executePlan: the executions array
    pending,     \* tool invocations started and not yet completed
    steps,       \* runAgentTask: what executePlan returned
    outcome,     \* what runAgentTask returned, or NoOutcome
    trail,       \* the phases this run went through, in order
    \* ---- observers of the outside world ----
    uuid,        \* number of randomUUID() calls so far
    evalCalls,   \* number of runs of Function(...)()
    fetchCalls,  \* number of fetch() calls
    llmCalls,    \* number of client.responses.create calls
    \* ---- the calculator on its own ----
    cInput,      \* the input string
    cResult,     \* [exec, evaluated] once calculatorTool has run
    \* ---- the heuristic planner on its own ----
    pTask,       \* the task string
    pPlans,      \* payloads of the calls of buildFallbackPlan so far
    \* ---- the web search on its own ----
    sInput,      \* the input the registry entry's execute is called with
    sTask,       \* context.task of that call
    sPc,         \* "start", "fetching" (the fetch is awaited), "done"
    sResp,       \* what the world answered to the fetch, or NoFetch
    sResult,     \* the execution searchTool returned, or NoResult
    \* ---- the knowledge base on its own ----
    kInput,      \* the input the registry entry's execute is called with
    kTask,       \* context.task of that call
    kResult      \* the execution knowledgeBaseTool returned, or NoResult

vars == <<apiKey, httpPc, body, response, agentCalls, pc, task, payload,
          stepIdx, executions, pending, steps, outcome, trail, uuid,
          evalCalls, fetchCalls, llmCalls, cInput, cResult, pTask, pPlans,
          sInput, sTask, sPc, sResp, sResult, kInput, kTask, kResult>>

httpVars == <<httpPc, body, response, agentCalls>>
agentVars == <<pc, task, payload, stepIdx, executions, pending, steps,
               outcome, trail>>
worldVars == <<uuid, evalCalls, fetchCalls, llmCalls>>
calcVars == <<cInput, cResult>>
planVars == <<pTask, pPlans>>
searchVars == <<sInput, sTask, sPc, sResp, sResult>>
kbVars == <<kInput, kTask, kResult>>

-----------------------------------------------------------------------------
(* Bounds of the model.                                                    *)

\* longest calculator input of CalcSpec
MaxExprLen == 3
\* most fragments a task of PlannerSpec is made of
MaxFragments == 2
\* most calls of buildFallbackPlan on one task in PlannerSpec
MaxPlannerCalls == 2
\* longest plan the LLM returns in Spec
MaxPlanLen == 3
\* most related topics of a search answer in SearchSpec
MaxTopics == 2
\* most fragments a query of KbSpec is made of
MaxKeywords == 5

-----------------------------------------------------------------------------
(* JavaScript string functions.                                            *)

CharAt(s, i) == SubSeq(s, i, i)

Chars(s) == {CharAt(s, i) : i \in 1..Len(s)}

\* String.prototype.includes
Includes(text, word) ==
    \E i \in 1..(Len(text) - Len(word) + 1) :
        SubSeq(text, i, i + Len(word) - 1) = word

UpperLetters == "ABCDEFGHIJKLMNOPQRSTUVWXYZ"
LowerLetters == "abcdefghijklmnopqrstuvwxyz"
Digits == "0123456789"

\* the lower-case letter of each upper-case letter
LowerOf == [c \in Chars(UpperLetters) |->
               CharAt(LowerLetters, CHOOSE i \in 1..26 : CharAt(UpperLetters, i) = c)]

LowerChar(c) == IF c \in DOMAIN LowerOf THEN LowerOf[c] ELSE c

\* String.prototype.toLowerCase (ASCII), the string halved at each level
RECURSIVE ToLowerCase(_)
ToLowerCase(s) ==
    IF Len(s) = 0 THEN ""
    ELSE IF Len(s) = 1 THEN LowerChar(s)
    ELSE ToLowerCase(SubSeq(s, 1, Len(s) \div 2))
         \o ToLowerCase(SubSeq(s, Len(s) \div 2 + 1, Len(s)))

\* the regular expression class \s (the characters trim() strips)
WhiteSpace == {" ", "\t", "\n", "\r"}

RECURSIVE TrimStart(_)
TrimStart(s) ==
    IF s # "" /\ Head(s) \in WhiteSpace THEN TrimStart(Tail(s)) ELSE s

RECURSIVE TrimEnd(_)
TrimEnd(s) ==
    IF s # "" /\ CharAt(s, Len(s)) \in WhiteSpace
    THEN TrimEnd(SubSeq(s, 1, Len(s) - 1))
    ELSE s

\* String.prototype.trim
Trim(s) == TrimEnd(TrimStart(s))

\* the regular expression class \w
WordChars == Chars(UpperLetters) \cup Chars(LowerLetters) \cup Chars(Digits) \cup {"_"}

\* the regular expression class [0-9]
DigitChars == Chars(Digits)

DigitValue(c) == (CHOOSE i \in 1..10 : CharAt(Digits, i) = c) - 1

\* template-literal formatting of a non-negative integer
NumberToString(n) == ToString(n)

-----------------------------------------------------------------------------
(* lib/tools.ts: the calculator.                                           *)

\* the characters of the class [0-9+\-*/().%\s^]
SafeChars == DigitChars \cup {"+", "-", "*", "/", "(", ")", ".", "%", "^"} \cup WhiteSpace

\* the same class without the anchors ^ and $: one safe character suffices
isSafeMathExpressionUnanchored(expression) ==
    \E i \in 1..Len(expression) : CharAt(expression, i) \in SafeChars

isSafeMathExpression(expression) ==
    \A i \in 1..Len(expression) : CharAt(expression, i) \in SafeChars

(* The evaluation Function(`"use strict"; return (${input});`)() of an     *)
(* input made of decimal digits, "+" and white space, which is the part of *)
(* the whitelist the inputs of this model use.  JavaScript tokenizes with  *)
(* the longest match, so "++" is the increment operator, which no operand  *)
(* made of literals accepts: a SyntaxError.  A numeral of several digits   *)
(* that starts with 0 is a SyntaxError in strict mode.  What is left is    *)
(* a sum of numerals, each under any number of unary "+".                  *)
(* Tokens: [t |-> "num", v |-> n], [t |-> "+"], [t |-> "++"], [t |-> "bad"]*)
RECURSIVE DigitRun(_)
DigitRun(s) ==
    IF s # "" /\ Head(s) \in DigitChars THEN Head(s) \o DigitRun(Tail(s)) ELSE ""

RECURSIVE NumeralValue(_)
NumeralValue(d) ==
    IF d = "" THEN 0
    ELSE 10 * NumeralValue(SubSeq(d, 1, Len(d) - 1)) + DigitValue(CharAt(d, Len(d)))

RECURSIVE Tokenize(_)
Tokenize(s) ==
    IF s = "" THEN <<>>
    ELSE IF Head(s) \in WhiteSpace THEN Tokenize(Tail(s))
    ELSE IF Head(s) = "+" THEN
        IF Len(s) >= 2 /\ CharAt(s, 2) = "+"
        THEN <<[t |-> "++"]>> \o Tokenize(SubSeq(s, 3, Len(s)))
        ELSE <<[t |-> "+"]>> \o Tokenize(Tail(s))
    ELSE IF Head(s) \in DigitChars THEN
        LET d == DigitRun(s) IN
        (IF Len(d) > 1 /\ Head(d) = "0"
         THEN <<[t |-> "bad"]>>
         ELSE <<[t |-> "num", v |-> NumeralValue(d)]>>)
        \o Tokenize(SubSeq(s, Len(d) + 1, Len(s)))
    ELSE <<[t |-> "bad"]>> \o Tokenize(Tail(s))

\* the token sequence is  ("+")* num ( ("+")+ num )*
RECURSIVE IsSum(_, _)
IsSum(toks, wantOperand) ==
    IF toks = <<>> THEN ~wantOperand
    ELSE IF Head(toks).t = "num" THEN wantOperand /\ IsSum(Tail(toks), FALSE)
    ELSE IF Head(toks).t = "+" THEN IsSum(Tail(toks), TRUE)
    ELSE FALSE

RECURSIVE SumOf(_)
SumOf(toks) ==
    IF toks = <<>> THEN 0
    ELSE (IF Head(toks).t = "num" THEN Head(toks).v ELSE 0) + SumOf(Tail(toks))

\* the text of the engine's SyntaxError; engine-defined, never empty
SyntaxErrorMessage == "Unexpected token"

\* [ok |-> TRUE, value |-> n] or [ok |-> FALSE, message |-> m] (it threw)
EvaluateExpression(input) ==
    LET toks == Tokenize(input) IN
    IF IsSum(toks, TRUE)
    THEN [ok |-> TRUE, value |-> SumOf(toks)]
    ELSE [ok |-> FALSE, message |-> SyntaxErrorMessage]

\* calculatorTool(input), the id drawn being `id`; evaluated: whether the
\* input reached Function(...)()
calculatorTool(input, id) ==
    IF Trim(input) = "" THEN
        [exec |-> [id |-> id, tool |-> "calculator", input |-> input,
                   output |-> "No expression provided.", success |-> FALSE,
                   error |-> "Expression required for calculator tool."],
         evaluated |-> FALSE]
    ELSE IF ~isSafeMathExpression(input) THEN
        [exec |-> [id |-> id, tool |-> "calculator", input |-> input,
                   output |-> "", success |-> FALSE,
                   error |-> "Expression contains unsupported characters."],
         evaluated |-> FALSE]
    ELSE
        LET r == EvaluateExpression(input) IN
        IF r.ok THEN
            [exec |-> [id |-> id, tool |-> "calculator", input |-> input,
                       output |-> "Result: " \o NumberToString(r.value),
                       success |-> TRUE],
             evaluated |-> TRUE]
        ELSE
            [exec |-> [id |-> id, tool |-> "calculator", input |-> input,
                       output |-> "", success |-> FALSE, error |-> r.message],
             evaluated |-> TRUE]

-----------------------------------------------------------------------------
(* lib/tools.ts: the knowledge base.                                       *)

KNOWLEDGE_BASE == <<
    [title |-> "Agentic AI definition",
     content |-> "Agentic AI systems combine reasoning, planning, and tool usage to autonomously achieve goals across multiple steps."],
    [title |-> "Product launch checklist",
     content |-> "A successful launch involves defining target personas, crafting messaging, creating assets, scheduling announcements, and preparing success metrics."],
    [title |-> "Data storytelling",
     content |-> "Transform raw analysis into narratives by highlighting the question, methodology, insights, and actionable recommendations."]
>>

\* the class [a-z0-9] of the split pattern
KeywordChars == Chars(LowerLetters) \cup DigitChars

\* q.split(/[^a-z0-9]+/).filter(Boolean): the maximal runs of [a-z0-9], in
\* order, repetitions kept
SplitKeywords(s) ==
    LET isKey(i) == CharAt(s, i) \in KeywordChars
        starts == {i \in 1..Len(s) : isKey(i) /\ (i = 1 \/ ~isKey(i - 1))}
        endOf(i) == CHOOSE j \in i..Len(s) :
                        /\ \A k \in i..j : isKey(k)
                        /\ (j = Len(s) \/ ~isKey(j + 1))
        nth(n) == CHOOSE i \in starts : Cardinality({t \in starts : t <= i}) = n
    IN [n \in 1..Cardinality(starts) |-> SubSeq(s, nth(n), endOf(nth(n)))]

RECURSIVE CountMatches(_, _)
CountMatches(keywords, text) ==
    IF keywords = <<>> THEN 0
    ELSE (IF Includes(text, Head(keywords)) THEN 1 ELSE 0)
         + CountMatches(Tail(keywords), text)

scoreKnowledgeBase(query, doc) ==
    LET q == ToLowerCase(query)
        text == ToLowerCase(doc.title \o " " \o doc.content)
    IN CountMatches(SplitKeywords(q), text)

\* Array.prototype.sort((a, b) => b.score - a.score) is stable: insertion
\* of each entry after the entries whose score is not smaller
RECURSIVE InsertByScore(_, _)
InsertByScore(sorted, e) ==
    IF sorted = <<>> THEN <<e>>
    ELSE IF Head(sorted).score >= e.score
         THEN <<Head(sorted)>> \o InsertByScore(Tail(sorted), e)
         ELSE <<e>> \o sorted

RECURSIVE SortByScore(_)
SortByScore(entries) ==
    IF entries = <<>> THEN <<>>
    ELSE InsertByScore(SortByScore(SubSeq(entries, 1, Len(entries) - 1)),
                       entries[Len(entries)])

RECURSIVE JoinLines(_)
JoinLines(lines) ==
    IF lines = <<>> THEN ""
    ELSE IF Len(lines) = 1 THEN lines[1]
    ELSE lines[1] \o "\n" \o JoinLines(Tail(lines))

\* the ranked entries of knowledgeBaseTool: map, filter, sort, slice(0, 2)
RankKnowledgeBase(query) ==
    LET scored == [i \in 1..Len(KNOWLEDGE_BASE) |->
                      [doc |-> KNOWLEDGE_BASE[i],
                       score |-> scoreKnowledgeBase(query, KNOWLEDGE_BASE[i])]]
        kept == SelectSeq(scored, LAMBDA e : e.score > 0)
        ranked == SortByScore(kept)
    IN SubSeq(ranked, 1, IF Len(ranked) < 2 THEN Len(ranked) ELSE 2)

\* the bullet U+2022 of line 60, written in ASCII
BULLET == "*"

\* knowledgeBaseTool(input, context): input || context.task is the query
knowledgeBaseTool(input, contextTask, id) ==
    LET ranked == RankKnowledgeBase(IF input # "" THEN input ELSE contextTask)
        output == IF Len(ranked) > 0
                  THEN JoinLines([i \in 1..Len(ranked) |->
                           BULLET \o " " \o ranked[i].doc.title \o ": " \o ranked[i].doc.content])
                  ELSE "No relevant knowledge snippets found."
    IN [id |-> id, tool |-> "knowledgeBase", input |-> input,
        output |-> output, success |-> TRUE]

-----------------------------------------------------------------------------
(* lib/tools.ts: the web search.                                           *)

(* What the outside world answers to fetch(url):                           *)
(*   [kind |-> "throw", message |-> m]   fetch rejected (transport)        *)
(*   [kind |-> "http", ok |-> FALSE, status |-> n]                         *)
(*   [kind |-> "http", ok |-> TRUE, status |-> 200, json |-> FALSE]        *)
(*        the body is no JSON: response.json() rejects                     *)
(*   [kind |-> "http", ok |-> TRUE, status |-> 200, json |-> TRUE,         *)
(*    data |-> d]   d has AbstractText and RelatedTopics when present;     *)
(*        a related topic has Text, or Topics (a list of [Text |-> ..]);   *)
(*        d = JsonNull when the body is the JSON text null                 *)
JsonNull == [jsonNull |-> TRUE]

SearchResponses == {
    [kind |-> "throw", message |-> "fetch failed"],
    [kind |-> "http", ok |-> FALSE, status |-> 503],
    [kind |-> "http", ok |-> TRUE, status |-> 200, json |-> TRUE,
     data |-> [AbstractText |-> "", RelatedTopics |-> <<>>]],
    [kind |-> "http", ok |-> TRUE, status |-> 200, json |-> TRUE,
     data |-> [AbstractText |-> "Abstract.",
               RelatedTopics |-> << [Text |-> "T1"],
                                    [Name |-> "Group",
                                     Topics |-> << [Text |-> "N1"], [Text |-> "N2"] >>],
                                    [Text |-> "T2"] >>]]
}

Field(r, f, default) == IF f \in DOMAIN r THEN r[f] ELSE default

RECURSIVE TextsOf(_)
TextsOf(topics) ==
    IF topics = <<>> THEN <<>>
    ELSE (IF Field(Head(topics), "Text", "") # "" THEN <<Head(topics).Text>> ELSE <<>>)
         \o TextsOf(Tail(topics))

\* the same with the nested texts collected after all the topics' own texts
FlattenTopicsNestedLast(topics) ==
    LET RECURSIVE Own(_)
        Own(ts) == IF ts = <<>> THEN <<>>
                   ELSE TextsOf(<<Head(ts)>>) \o Own(Tail(ts))
        RECURSIVE Nested(_)
        Nested(ts) == IF ts = <<>> THEN <<>>
                      ELSE TextsOf(Field(Head(ts), "Topics", <<>>)) \o Nested(Tail(ts))
    IN Own(topics) \o Nested(topics)

\* data.RelatedTopics?.forEach: a topic's own Text, then its Topics' Texts
RECURSIVE FlattenTopics(_)
FlattenTopics(topics) ==
    IF topics = <<>> THEN <<>>
    ELSE TextsOf(<<Head(topics)>>)
         \o TextsOf(Field(Head(topics), "Topics", <<>>))
         \o FlattenTopics(Tail(topics))

CollectSnippets(data) ==
    (IF Field(data, "AbstractText", "") # "" THEN <<data.AbstractText>> ELSE <<>>)
    \o FlattenTopics(Field(data, "RelatedTopics", <<>>))

\* snippets.slice(0, 4)
SNIPPET_LIMIT == 4

\* searchTool(input) when the world answers `resp` to its fetch; fetched:
\* whether fetch was called
searchTool(input, resp, id) ==
    IF Trim(input) = "" THEN
        [exec |-> [id |-> id, tool |-> "webSearch", input |-> input,
                   output |-> "Search input missing.", success |-> FALSE,
                   error |-> "The search tool requires a query string."],
         fetched |-> FALSE]
    ELSE
        LET failed(message) ==
                [id |-> id, tool |-> "webSearch", input |-> input,
                 output |-> "Search failed.", success |-> FALSE,
                 error |-> message]
        IN
        [exec |->
            IF resp.kind = "throw" THEN failed(resp.message)
            ELSE IF ~resp.ok THEN failed("HTTP " \o NumberToString(resp.status))
            ELSE IF ~resp.json THEN failed("Unexpected token < in JSON at position 0")
            ELSE IF resp.data = JsonNull
                 THEN failed("Cannot read properties of null (reading 'AbstractText')")
            ELSE
                LET snippets == CollectSnippets(resp.data)
                    first == SubSeq(snippets, 1,
                                 IF Len(snippets) < SNIPPET_LIMIT
                                 THEN Len(snippets) ELSE SNIPPET_LIMIT)
                    joined == JoinLines(first)
                IN [id |-> id, tool |-> "webSearch", input |-> input,
                    output |-> IF joined # "" THEN joined
                               ELSE "No search snippets returned.",
                    success |-> TRUE],
         fetched |-> TRUE]

-----------------------------------------------------------------------------
(* lib/tools.ts: the registry.                                             *)

TOOLKIT == <<"webSearch", "calculator", "knowledgeBase">>

\* tool.name.toLowerCase() of each entry
ToolkitLower == [i \in 1..Len(TOOLKIT) |-> ToLowerCase(TOOLKIT[i])]

\* TOOLKIT.find(...): the first tool whose lower-cased name is the
\* lower-cased `name`; "" stands for undefined (no tool is named "")
getToolByName(name) ==
    LET lowerName == ToLowerCase(name)
        hits == {i \in 1..Len(TOOLKIT) : ToolkitLower[i] = lowerName}
    IN IF hits = {} THEN ""
       ELSE TOOLKIT[CHOOSE i \in hits : \A j \in hits : i <= j]

\* the string a TOOLKIT entry's execute hands to its tool function
\* (lines 194, 199, 204): input || context.task, but for the calculator
ToolInput(tool, input, contextTask) ==
    IF tool = "calculator" THEN input
    ELSE IF input # "" THEN input ELSE contextTask


-----------------------------------------------------------------------------
(* lib/agent.ts: the heuristic planner.                                    *)

FALLBACK_PLAN_LIMIT == 3

\* randomUUID(): the n-th identifier drawn
UuidOf(n) == "uuid-" \o ToString(n)

\* /(analy\w+|calculate|percent|growth|increase|decrease|budget|roi)/.test
MatchesAnalysis(lowerTask) ==
    \/ \E i \in 1..(Len(lowerTask) - 5) :
          /\ SubSeq(lowerTask, i, i + 4) = "analy"
          /\ CharAt(lowerTask, i + 5) \in WordChars
    \/ \E w \in {"calculate", "percent", "growth", "increase", "decrease",
                 "budget", "roi"} : Includes(lowerTask, w)

\* /(research|find|latest|current|news|market)/.test
MatchesResearch(lowerTask) ==
    \E w \in {"research", "find", "latest", "current", "news", "market"} :
        Includes(lowerTask, w)

\* the same with the playbook step pushed only onto an empty plan
FallbackItemsPlaybookIfEmpty(t) ==
    LET lowerTask == ToLowerCase(t)
        first == (IF MatchesAnalysis(lowerTask)
                  THEN << [title |-> "Quantify key numbers",
                           description |-> "Use the calculator to work through the core numeric components of the request.",
                           tool |-> "calculator"] >>
                  ELSE <<>>)
                 \o
                 (IF MatchesResearch(lowerTask)
                  THEN << [title |-> "Collect live context",
                           description |-> "Pull quick snippets from the web to augment knowledge with recent information.",
                           tool |-> "webSearch"] >>
                  ELSE <<>>)
    IN IF first # <<>> THEN first
       ELSE << [title |-> "Reference built-in playbooks",
                description |-> "Consult the knowledge base for strategic or evergreen guidance.",
                tool |-> "knowledgeBase"] >>

\* the same with the patterns tested on the task as typed
FallbackItemsCaseSensitive(t) ==
    (IF MatchesAnalysis(t)
     THEN << [title |-> "Quantify key numbers",
              description |-> "Use the calculator to work through the core numeric components of the request.",
              tool |-> "calculator"] >>
     ELSE <<>>)
    \o
    (IF MatchesResearch(t)
     THEN << [title |-> "Collect live context",
              description |-> "Pull quick snippets from the web to augment knowledge with recent information.",
              tool |-> "webSearch"] >>
     ELSE <<>>)
    \o
    << [title |-> "Reference built-in playbooks",
        description |-> "Consult the knowledge base for strategic or evergreen guidance.",
        tool |-> "knowledgeBase"] >>

\* the items buildFallbackPlan pushes, before their ids are drawn
FallbackItems(t) ==
    LET lowerTask == ToLowerCase(t) IN
    (IF MatchesAnalysis(lowerTask)
     THEN << [title |-> "Quantify key numbers",
              description |-> "Use the calculator to work through the core numeric components of the request.",
              tool |-> "calculator"] >>
     ELSE <<>>)
    \o
    (IF MatchesResearch(lowerTask)
     THEN << [title |-> "Collect live context",
              description |-> "Pull quick snippets from the web to augment knowledge with recent information.",
              tool |-> "webSearch"] >>
     ELSE <<>>)
    \o
    << [title |-> "Reference built-in playbooks",
        description |-> "Consult the knowledge base for strategic or evergreen guidance.",
        tool |-> "knowledgeBase"] >>

\* buildFallbackPlan(task) when n identifiers have been drawn before
buildFallbackPlan(t, n) ==
    LET items == FallbackItems(t)
        pushed == [i \in 1..Len(items) |->
                      [id |-> UuidOf(n + i), title |-> items[i].title,
                       description |-> items[i].description,
                       tool |-> items[i].tool]]
    IN [reasoning |-> "Generated plan via heuristic fallback because the OpenAI API key is not configured.",
        plan |-> SubSeq(pushed, 1, IF Len(pushed) < FALLBACK_PLAN_LIMIT
                                   THEN Len(pushed) ELSE FALLBACK_PLAN_LIMIT),
        drawn |-> Len(pushed)]

-----------------------------------------------------------------------------
(* The outside world of Spec: requests and LLM answers.                    *)

(* What request.json() and body.task give (route.ts 26-27):                *)
(*   unparseable: the body is no JSON, request.json() rejects              *)
(*   null: the body is the JSON null, body.task throws a TypeError         *)
(*   noTask: a JSON value without a task property                          *)
(*   nonStringTask: typeof body.task is not "string"                       *)
(*   stringTask: body.task is the string `task`                            *)
RequestBodies ==
    {[kind |-> "unparseable"], [kind |-> "null"], [kind |-> "noTask"],
     [kind |-> "nonStringTask"]}
    \cup {[kind |-> "stringTask", task |-> t] :
            t \in {"", " \n ", " Plan a product launch ", "Calculate ROI: 2+2",
                   "Find latest news", "Analyze market growth"}}

\* the plan items an LLM answer is made of; an item may lack its description
LLMItems == {
    [id |-> "a", title |-> "Compute", description |-> "2+2", tool |-> "Calculator"],
    [id |-> "c", title |-> "Search", description |-> "", tool |-> "webSearch"],
    [id |-> "d", title |-> "Recall", description |-> "agentic ai", tool |-> "knowledgeBase"],
    [id |-> "e", title |-> "Browse", description |-> "open the page", tool |-> "browser"],
    [id |-> "g", title |-> "Compute", tool |-> "calculator"],
    [id |-> "h", title |-> "Add", description |-> "2+", tool |-> "calculator"]
}

SeqsUpTo(S, n) == UNION {[1..k -> S] : k \in 0..n}

(* What the planning call gives (agent.ts 130-157):                        *)
(*   throw: responses.create rejected, or JSON.parse threw                 *)
(*   payload: the parsed object, which nothing validates                   *)
LLMPlanResponses ==
    {[kind |-> "throw", message |-> "Connection error."],
     [kind |-> "throw", message |-> "Unexpected end of JSON input"],
     [kind |-> "payload", payload |-> [reasoning |-> "No plan."]]}
    \cup {[kind |-> "payload", payload |-> [reasoning |-> "Use the tools.", plan |-> p]] :
            p \in SeqsUpTo(LLMItems, MaxPlanLen)}

\* What the summarizing call gives (agent.ts 166-186)
LLMFinalResponses ==
    {[kind |-> "throw", message |-> "Request timed out."],
     [kind |-> "text", text |-> "Summary of the results."]}

NoResponse == [none |-> TRUE]
NoOutcome == [none |-> TRUE]
NoPayload == [none |-> TRUE]
NoResult == [none |-> TRUE]

-----------------------------------------------------------------------------
(* lib/agent.ts: runAgentTask and executePlan.                             *)

FINAL_OFFLINE == "The live LLM backend is not configured, but here is an offline plan and tool output you can use as a starting point."
KEY_MISSING == "OpenAI API key missing. Configure OPENAI_API_KEY to enable full agentic reasoning."

\* the catch block of runAgentTask (lines 234-251)
FailedOutcome(message) ==
    [success |-> FALSE, plan |-> <<>>, steps |-> <<>>, final |-> "",
     reasoning |-> "", error |-> message]

\* runAgentTask's catch: the run ends in the error exit
Catch(message) ==
    /\ pc' = "Failed"
    /\ trail' = Append(trail, "Failed")
    /\ outcome' = FailedOutcome(message)
    /\ stepIdx' = 0
    /\ executions' = <<>>
    /\ pending' = {}
    /\ UNCHANGED <<task, payload, steps>>

\* lines 190-193: the credential is read and planning begins
RunStart ==
    /\ pc = "Start"
    /\ pc' = "Planning"
    /\ trail' = Append(trail, "Planning")
    /\ UNCHANGED <<task, payload, stepIdx, executions, pending, steps, outcome>>
    /\ UNCHANGED worldVars
    /\ UNCHANGED <<apiKey, searchVars, kbVars, httpVars, calcVars, planVars>>

\* lines 214-217 and 130: the client is built and the planning request sent
PlanLLMCall ==
    /\ pc = "Planning"
    /\ apiKey
    /\ llmCalls = 0
    /\ llmCalls' = 1
    /\ UNCHANGED <<uuid, evalCalls, fetchCalls>>
    /\ UNCHANGED agentVars
    /\ UNCHANGED <<apiKey, searchVars, kbVars, httpVars, calcVars, planVars>>

\* the call of executePlan(plan, task): line 105
EnterExecutePlan ==
    /\ pc' = "Executing"
    /\ trail' = Append(trail, "Executing")
    /\ stepIdx' = 1
    /\ executions' = <<>>
    /\ pending' = {}

\* lines 194-195: no credential, the heuristic plan
PlanHeuristic ==
    /\ pc = "Planning"
    /\ ~apiKey
    /\ LET p == buildFallbackPlan(task, uuid) IN
        /\ payload' = [reasoning |-> p.reasoning, plan |-> p.plan]
        /\ uuid' = uuid + p.drawn
    /\ EnterExecutePlan
    /\ UNCHANGED <<task, steps, outcome>>
    /\ UNCHANGED <<evalCalls, fetchCalls, llmCalls>>
    /\ UNCHANGED <<apiKey, searchVars, kbVars, httpVars, calcVars, planVars>>

\* lines 217-218: the planning call settles
PlanLLMReturn ==
    /\ pc = "Planning"
    /\ apiKey
    /\ llmCalls = 1
    /\ \E r \in LLMPlanResponses :
        IF r.kind = "throw"
        THEN Catch(r.message)
        ELSE /\ payload' = r.payload
             /\ EnterExecutePlan
             /\ UNCHANGED <<task, steps, outcome>>
    /\ UNCHANGED worldVars
    /\ UNCHANGED <<apiKey, searchVars, kbVars, httpVars, calcVars, planVars>>


\* a step of `plan` left to iterate at the loop head, line 107
AtLoopHead ==
    /\ pc = "Executing"
    /\ pending = {}
    /\ "plan" \in DOMAIN payload
    /\ stepIdx <= Len(payload.plan)

\* line 107 with no plan property: `for (const step of undefined)` throws
\* a TypeError, which runAgentTask catches
ExecThrow ==
    /\ pc = "Executing"
    /\ pending = {}
    /\ "plan" \notin DOMAIN payload
    /\ Catch("plan is not iterable")
    /\ UNCHANGED worldVars
    /\ UNCHANGED <<apiKey, searchVars, kbVars, httpVars, calcVars, planVars>>

\* the same without its error
UnregisteredExecutionNoError(step, id) ==
    [id |-> id, tool |-> step.tool, input |-> "",
     output |-> "Tool not available.", success |-> FALSE]

\* the execution executePlan makes up for a tool that is not registered
UnregisteredExecution(step, id) ==
    [id |-> id, tool |-> step.tool, input |-> "",
     output |-> "Tool not available.", success |-> FALSE,
     error |-> "Tool " \o step.tool \o " is not registered."]

\* lines 108-120: the tool is not registered
\* the same with `break` for `continue`
ExecUnregisteredAbort ==
    /\ AtLoopHead
    /\ getToolByName(payload.plan[stepIdx].tool) = ""
    /\ executions' = Append(executions,
                            UnregisteredExecution(payload.plan[stepIdx], UuidOf(uuid + 1)))
    /\ uuid' = uuid + 1
    /\ stepIdx' = Len(payload.plan) + 1
    /\ UNCHANGED <<pc, task, payload, pending, steps, outcome, trail>>
    /\ UNCHANGED <<evalCalls, fetchCalls, llmCalls>>
    /\ UNCHANGED <<apiKey, searchVars, kbVars, httpVars, calcVars, planVars>>

ExecUnregistered ==
    /\ AtLoopHead
    /\ getToolByName(payload.plan[stepIdx].tool) = ""
    /\ executions' = Append(executions,
                            UnregisteredExecution(payload.plan[stepIdx], UuidOf(uuid + 1)))
    /\ uuid' = uuid + 1
    /\ stepIdx' = stepIdx + 1
    /\ UNCHANGED <<pc, task, payload, pending, steps, outcome, trail>>
    /\ UNCHANGED <<evalCalls, fetchCalls, llmCalls>>
    /\ UNCHANGED <<apiKey, searchVars, kbVars, httpVars, calcVars, planVars>>

\* the same without the await: the loop goes on while the invocation is in
\* flight
ExecInvokeNoAwait ==
    /\ pc = "Executing"
    /\ "plan" \in DOMAIN payload
    /\ stepIdx <= Len(payload.plan)
    /\ getToolByName(payload.plan[stepIdx].tool) # ""
    /\ pending' = pending \cup {[idx |-> stepIdx,
                                 tool |-> getToolByName(payload.plan[stepIdx].tool),
                                 step |-> payload.plan[stepIdx],
                                 task |-> task]}
    /\ stepIdx' = stepIdx + 1
    /\ UNCHANGED <<pc, task, payload, executions, steps, outcome, trail>>
    /\ UNCHANGED worldVars
    /\ UNCHANGED <<apiKey, searchVars, kbVars, httpVars, calcVars, planVars>>

\* the same with the previous step's output handed over as the context
ExecInvokeThreaded ==
    /\ AtLoopHead
    /\ getToolByName(payload.plan[stepIdx].tool) # ""
    /\ pending' = {[idx |-> stepIdx,
                    tool |-> getToolByName(payload.plan[stepIdx].tool),
                    step |-> payload.plan[stepIdx],
                    task |-> IF executions = <<>> THEN task
                             ELSE executions[Len(executions)].output]}
    /\ UNCHANGED <<pc, task, payload, stepIdx, executions, steps, outcome, trail>>
    /\ UNCHANGED worldVars
    /\ UNCHANGED <<apiKey, searchVars, kbVars, httpVars, calcVars, planVars>>

\* line 122: tool.execute(step.description, { task }) is called and awaited;
\* the invocation is in flight until ToolReturn or ToolReject
ExecInvoke ==
    /\ AtLoopHead
    /\ getToolByName(payload.plan[stepIdx].tool) # ""
    /\ pending' = {[idx |-> stepIdx,
                    tool |-> getToolByName(payload.plan[stepIdx].tool),
                    step |-> payload.plan[stepIdx],
                    task |-> task]}
    /\ UNCHANGED <<pc, task, payload, stepIdx, executions, steps, outcome, trail>>
    /\ UNCHANGED worldVars
    /\ UNCHANGED <<apiKey, searchVars, kbVars, httpVars, calcVars, planVars>>

\* the invocation has its first argument: step.description is a string
HasInput(inv) == "description" \in DOMAIN inv.step

\* the same with the task handed over in place of the step's description
InvocationInputTask(inv) ==
    ToolInput(inv.tool, inv.task, inv.task)

\* what the tool function of an invocation is handed (lines 194, 199, 204);
\* a description left out is undefined, which || replaces like ""
InvocationInput(inv) ==
    ToolInput(inv.tool, Field(inv.step, "description", ""), inv.task)

\* whether the invocation calls fetch, so that its result depends on the
\* world's answer
MakesFetch(inv) == inv.tool = "webSearch" /\ Trim(InvocationInput(inv)) # ""

NoFetch == [kind |-> "none"]

\* the tool's result when the world answers `resp` to the fetch it makes:
\* [exec, evaluated, fetched]
ToolResult(inv, resp, id) ==
    IF inv.tool = "calculator" THEN
        LET r == calculatorTool(InvocationInput(inv), id)
        IN [exec |-> r.exec, evaluated |-> r.evaluated, fetched |-> FALSE]
    ELSE IF inv.tool = "webSearch" THEN
        LET r == searchTool(InvocationInput(inv), resp, id)
        IN [exec |-> r.exec, evaluated |-> FALSE, fetched |-> r.fetched]
    ELSE
        [exec |-> knowledgeBaseTool(InvocationInput(inv), inv.task, id),
         evaluated |-> FALSE, fetched |-> FALSE]

\* calculatorTool(undefined): input.trim() throws a TypeError (line 145)
Rejects(inv) == inv.tool = "calculator" /\ ~HasInput(inv)

\* lines 122-123: the awaited invocation settles with an execution, which
\* is pushed; the loop goes on to the next step
ToolReturn ==
    /\ pc = "Executing"
    /\ \E inv \in pending :
        /\ ~Rejects(inv)
        /\ \E resp \in (IF MakesFetch(inv) THEN SearchResponses ELSE {NoFetch}) :
            LET r == ToolResult(inv, resp, UuidOf(uuid + 1))
            IN /\ executions' = Append(executions, r.exec)
               /\ evalCalls' = IF r.evaluated THEN evalCalls + 1 ELSE evalCalls
               /\ fetchCalls' = IF r.fetched THEN fetchCalls + 1 ELSE fetchCalls
        /\ pending' = pending \ {inv}
        /\ stepIdx' = inv.idx + 1
    /\ uuid' = uuid + 1
    /\ UNCHANGED <<pc, task, payload, steps, outcome, trail>>
    /\ UNCHANGED llmCalls
    /\ UNCHANGED <<apiKey, searchVars, kbVars, httpVars, calcVars, planVars>>

\* line 122: the awaited invocation rejects; executePlan rethrows and
\* runAgentTask catches
ToolReject ==
    /\ pc = "Executing"
    /\ \E inv \in pending :
        /\ Rejects(inv)
        /\ Catch("Cannot read properties of undefined (reading 'trim')")
    /\ UNCHANGED worldVars
    /\ UNCHANGED <<apiKey, searchVars, kbVars, httpVars, calcVars, planVars>>

\* the same one step short
LoopDoneEarly ==
    /\ pc = "Executing"
    /\ pending = {}
    /\ "plan" \in DOMAIN payload
    /\ stepIdx >= Len(payload.plan)

\* the loop of executePlan is over: every step has been iterated
LoopDone ==
    /\ pc = "Executing"
    /\ pending = {}
    /\ "plan" \in DOMAIN payload
    /\ stepIdx > Len(payload.plan)

\* line 126 and lines 195-196, 218-219: executePlan returns its executions
\* and summarizing begins
ExecReturn ==
    /\ LoopDone
    /\ steps' = executions
    /\ executions' = <<>>
    /\ stepIdx' = 0
    /\ pc' = "Summarizing"
    /\ trail' = Append(trail, "Summarizing")
    /\ llmCalls' = IF apiKey THEN llmCalls + 1 ELSE llmCalls
    /\ UNCHANGED <<task, payload, pending, outcome>>
    /\ UNCHANGED <<uuid, evalCalls, fetchCalls>>
    /\ UNCHANGED <<apiKey, searchVars, kbVars, httpVars, calcVars, planVars>>

\* the same without the note on the missing credential
OfflineOutcomeNoKeyNote(p, executed) ==
    [success |-> TRUE, plan |-> p.plan, steps |-> executed,
     final |-> FINAL_OFFLINE, reasoning |-> p.reasoning]

\* lines 199-211: the outcome of the path without a credential
OfflineOutcome(p, executed) ==
    [success |-> TRUE, plan |-> p.plan, steps |-> executed,
     final |-> FINAL_OFFLINE, reasoning |-> p.reasoning,
     error |-> KEY_MISSING]

\* lines 222-233: the outcome of the path with a credential (meta, the
\* timestamps of the run, is left out of the three outcomes)
LiveOutcome(p, executed, final) ==
    [success |-> TRUE, plan |-> p.plan, steps |-> executed,
     final |-> final, reasoning |-> Field(p, "reasoning", "")]

\* lines 196-211: the fixed sentence stands for the summary
SummarizeOffline ==
    /\ pc = "Summarizing"
    /\ ~apiKey
    /\ outcome' = OfflineOutcome(payload, steps)
    /\ pc' = "Done"
    /\ trail' = Append(trail, "Done")
    /\ UNCHANGED <<task, payload, stepIdx, executions, pending, steps>>
    /\ UNCHANGED worldVars
    /\ UNCHANGED <<apiKey, searchVars, kbVars, httpVars, calcVars, planVars>>

\* the same with the summarizer's failure swallowed
SummarizeLLMReturnSwallow ==
    /\ pc = "Summarizing"
    /\ apiKey
    /\ \E r \in LLMFinalResponses :
        /\ outcome' = LiveOutcome(payload, steps,
                                  IF r.kind = "throw" THEN "" ELSE r.text)
        /\ pc' = "Done"
        /\ trail' = Append(trail, "Done")
        /\ UNCHANGED <<task, payload, stepIdx, executions, pending, steps>>
    /\ UNCHANGED worldVars
    /\ UNCHANGED <<apiKey, searchVars, kbVars, httpVars, calcVars, planVars>>

\* lines 219-233: the summarizing call settles
SummarizeLLMReturn ==
    /\ pc = "Summarizing"
    /\ apiKey
    /\ \E r \in LLMFinalResponses :
        IF r.kind = "throw"
        THEN Catch(r.message)
        ELSE /\ outcome' = LiveOutcome(payload, steps, r.text)
             /\ pc' = "Done"
             /\ trail' = Append(trail, "Done")
             /\ UNCHANGED <<task, payload, stepIdx, executions, pending, steps>>
    /\ UNCHANGED worldVars
    /\ UNCHANGED <<apiKey, searchVars, kbVars, httpVars, calcVars, planVars>>

-----------------------------------------------------------------------------
(* app/api/agent/route.ts: the POST handler.                               *)

\* the body of the 400 answer (lines 31-43) and of the catch (lines 54-66)
ErrorBody(message) ==
    [success |-> FALSE, plan |-> <<>>, steps |-> <<>>, final |-> "",
     reasoning |-> "", error |-> message]

\* line 27: typeof body.task === "string" ? body.task.trim() : ""
TaskOf(b) == IF b.kind = "stringTask" THEN Trim(b.task) ELSE ""

\* lines 25-48: the request is read and validated; runAgentTask is called
\* with a task that is not empty
PostReceive ==
    /\ httpPc = "waiting"
    /\ \E b \in RequestBodies :
        /\ body' = b
        /\ IF b.kind = "unparseable" THEN
               /\ response' = [status |-> 500,
                               body |-> ErrorBody("Unexpected token in JSON")]
               /\ httpPc' = "responded"
               /\ UNCHANGED <<agentCalls, pc, task, trail>>
           ELSE IF b.kind = "null" THEN
               /\ response' = [status |-> 500,
                               body |-> ErrorBody("Cannot read properties of null (reading 'task')")]
               /\ httpPc' = "responded"
               /\ UNCHANGED <<agentCalls, pc, task, trail>>
           ELSE IF TaskOf(b) = "" THEN
               /\ response' = [status |-> 400, body |-> ErrorBody("Task is required.")]
               /\ httpPc' = "responded"
               /\ UNCHANGED <<agentCalls, pc, task, trail>>
           ELSE
               /\ httpPc' = "awaiting"
               /\ agentCalls' = agentCalls + 1
               /\ pc' = "Start"
               /\ trail' = <<>>
               /\ task' = TaskOf(b)
               /\ UNCHANGED response
    /\ UNCHANGED <<payload, stepIdx, executions, pending, steps, outcome>>
    /\ UNCHANGED worldVars
    /\ UNCHANGED <<apiKey, searchVars, kbVars, calcVars, planVars>>

\* the status of the answer that carries an outcome (line 50)
StatusOf(o) == IF o.success THEN 200 ELSE 500

\* lines 48-50: runAgentTask has returned; its outcome is the answer
PostRespond ==
    /\ httpPc = "awaiting"
    /\ pc \in {"Done", "Failed"}
    /\ response' = [status |-> StatusOf(outcome), body |-> outcome]
    /\ httpPc' = "responded"
    /\ UNCHANGED <<body, agentCalls>>
    /\ UNCHANGED agentVars
    /\ UNCHANGED worldVars
    /\ UNCHANGED <<apiKey, searchVars, kbVars, calcVars, planVars>>

-----------------------------------------------------------------------------
(* The request pipeline: one request from its arrival to its answer.       *)

\* nothing has happened yet
Quiet ==
    /\ httpPc = "waiting"
    /\ body = [kind |-> "none"]
    /\ response = NoResponse
    /\ agentCalls = 0
    /\ pc = "Idle"
    /\ task = ""
    /\ payload = NoPayload
    /\ stepIdx = 0
    /\ executions = <<>>
    /\ pending = {}
    /\ steps = <<>>
    /\ outcome = NoOutcome
    /\ trail = <<>>
    /\ uuid = 0
    /\ evalCalls = 0
    /\ fetchCalls = 0
    /\ llmCalls = 0

\* the tools of SearchSpec and KbSpec are not called
SearchAtRest ==
    /\ sInput = ""
    /\ sTask = ""
    /\ sPc = "start"
    /\ sResp = NoFetch
    /\ sResult = NoResult

KbAtRest ==
    /\ kInput = ""
    /\ kTask = ""
    /\ kResult = NoResult

Init ==
    /\ apiKey \in BOOLEAN
    /\ Quiet
    /\ cInput = ""
    /\ cResult = NoResult
    /\ pTask = ""
    /\ pPlans = <<>>
    /\ SearchAtRest
    /\ KbAtRest

Next ==
    \/ PostReceive
    \/ RunStart
    \/ PlanHeuristic
    \/ PlanLLMCall
    \/ PlanLLMReturn
    \/ ExecThrow
    \/ ExecUnregistered
    \/ ExecInvoke
    \/ ToolReturn
    \/ ToolReject
    \/ ExecReturn
    \/ SummarizeOffline
    \/ SummarizeLLMReturn
    \/ PostRespond

Spec == Init /\ [][Next]_vars

-----------------------------------------------------------------------------
(* The calculator on its own: calculatorTool applied to every string of    *)
(* at most MaxExprLen characters of CalcAlphabet.                          *)

\* a digit, the operator "+", white space, and two characters outside the
\* whitelist
CalcAlphabet == {"2", "+", " ", "a", ";"}

RECURSIVE StringsUpTo(_, _)
StringsUpTo(alphabet, n) ==
    IF n = 0 THEN {""}
    ELSE LET shorter == StringsUpTo(alphabet, n - 1)
         IN shorter \cup {s \o c : s \in shorter, c \in alphabet}

CalcInputs == StringsUpTo(CalcAlphabet, MaxExprLen)

InitCalc ==
    /\ apiKey = FALSE
    /\ Quiet
    /\ cInput \in CalcInputs
    /\ cResult = NoResult
    /\ pTask = ""
    /\ pPlans = <<>>
    /\ SearchAtRest
    /\ KbAtRest

\* calculatorTool(cInput), lines 144-188
RunCalculator ==
    /\ cResult = NoResult
    /\ cResult' = calculatorTool(cInput, UuidOf(uuid + 1))
    /\ uuid' = uuid + 1
    /\ evalCalls' = IF cResult'.evaluated THEN evalCalls + 1 ELSE evalCalls
    /\ UNCHANGED <<cInput, fetchCalls, llmCalls>>
    /\ UNCHANGED <<apiKey, searchVars, kbVars, httpVars, agentVars, planVars>>

NextCalc == RunCalculator

CalcSpec == InitCalc /\ [][NextCalc]_vars

-----------------------------------------------------------------------------
(* The heuristic planner on its own: buildFallbackPlan called up to        *)
(* MaxPlannerCalls times on a task made of at most MaxFragments fragments. *)

TaskFragments ==
    {"calculate", "Calculate", "ROI", "ro", "i", "analy", "Analysis", "z",
     " ", "news", "Market", "fin", "d", "Plan a launch"}

RECURSIVE Concatenations(_, _)
Concatenations(fragments, n) ==
    IF n = 0 THEN {""}
    ELSE LET shorter == Concatenations(fragments, n - 1)
         IN shorter \cup {s \o f : s \in shorter, f \in fragments}

PlannerTasks == Concatenations(TaskFragments, MaxFragments)

InitPlanner ==
    /\ apiKey = FALSE
    /\ Quiet
    /\ cInput = ""
    /\ cResult = NoResult
    /\ pTask \in PlannerTasks
    /\ pPlans = <<>>
    /\ SearchAtRest
    /\ KbAtRest

\* buildFallbackPlan(pTask), lines 69-102
CallPlanner ==
    /\ Len(pPlans) < MaxPlannerCalls
    /\ LET p == buildFallbackPlan(pTask, uuid) IN
        /\ pPlans' = Append(pPlans, [reasoning |-> p.reasoning, plan |-> p.plan])
        /\ uuid' = uuid + p.drawn
    /\ UNCHANGED <<pTask, evalCalls, fetchCalls, llmCalls>>
    /\ UNCHANGED <<apiKey, searchVars, kbVars, httpVars, agentVars, calcVars>>

NextPlanner == CallPlanner

PlannerSpec == InitPlanner /\ [][NextPlanner]_vars

-----------------------------------------------------------------------------
(* The web search on its own: the registry entry's execute called once     *)
(* with an input and a task, and the world answering its fetch with a      *)
(* transport failure, a status, an undecodable body or a decoded body      *)
(* with at most MaxTopics related topics.                                  *)

SearchInputs == {"", " ", "\n\t ", "agentic ai"}
SearchTasks == {"", "  ", "Find news"}

\* related topics: a text, an empty text, no text, a group of sub-topics
\* (one of them without text), a topic with a text and sub-topics, and an
\* empty group
SearchTopics == {
    [Text |-> "T1"],
    [Text |-> ""],
    [FirstURL |-> "https://example.org"],
    [Name |-> "Group", Topics |-> << [Text |-> "N1"], [Text |-> ""], [Text |-> "N2"] >>],
    [Text |-> "T2", Topics |-> << [Text |-> "N3"], [FirstURL |-> "https://example.org"] >>],
    [Name |-> "Empty", Topics |-> <<>>]
}

TopicLists == SeqsUpTo(SearchTopics, MaxTopics)

\* decoded bodies: AbstractText and RelatedTopics present or not
SearchData ==
    {[AbstractText |-> a, RelatedTopics |-> r] : a \in {"", "Abstract."}, r \in TopicLists}
    \cup {[RelatedTopics |-> r] : r \in TopicLists}
    \cup {[AbstractText |-> a] : a \in {"", "Abstract."}}
    \cup {[Heading |-> "H"]}

SearchStatuses == {200, 201, 404, 503}

\* Response.ok of the Fetch standard: the status is in the range 200-299
IsOk(status) == status \in 200..299

SearchWorld ==
    {[kind |-> "throw", message |-> "fetch failed"]}
    \cup {[kind |-> "http", ok |-> FALSE, status |-> n] :
             n \in {m \in SearchStatuses : ~IsOk(m)}}
    \cup {[kind |-> "http", ok |-> TRUE, status |-> n, json |-> FALSE] :
             n \in {m \in SearchStatuses : IsOk(m)}}
    \cup {[kind |-> "http", ok |-> TRUE, status |-> n, json |-> TRUE, data |-> d] :
             n \in {m \in SearchStatuses : IsOk(m)}, d \in SearchData \cup {JsonNull}}

InitSearch ==
    /\ apiKey = FALSE
    /\ Quiet
    /\ cInput = ""
    /\ cResult = NoResult
    /\ pTask = ""
    /\ pPlans = <<>>
    /\ sInput \in SearchInputs
    /\ sTask \in SearchTasks
    /\ sPc = "start"
    /\ sResp = NoFetch
    /\ sResult = NoResult
    /\ KbAtRest

\* execute(sInput, {task: sTask}) of the webSearch entry, up to the await of
\* fetch: lines 194 and 74-91
SearchCall ==
    /\ sPc = "start"
    /\ LET query == ToolInput("webSearch", sInput, sTask) IN
        IF Trim(query) = ""
        THEN /\ sResult' = searchTool(query, NoFetch, UuidOf(uuid + 1)).exec
             /\ uuid' = uuid + 1
             /\ sPc' = "done"
             /\ UNCHANGED fetchCalls
        ELSE /\ fetchCalls' = fetchCalls + 1
             /\ sPc' = "fetching"
             /\ UNCHANGED <<sResult, uuid>>
    /\ UNCHANGED <<sInput, sTask, sResp, evalCalls, llmCalls>>
    /\ UNCHANGED <<apiKey, httpVars, agentVars, calcVars, planVars, kbVars>>

\* the fetch settles and searchTool returns: lines 93-137
SearchSettle ==
    /\ sPc = "fetching"
    /\ \E resp \in SearchWorld :
        /\ sResp' = resp
        /\ sResult' = searchTool(ToolInput("webSearch", sInput, sTask), resp,
                                 UuidOf(uuid + 1)).exec
    /\ uuid' = uuid + 1
    /\ sPc' = "done"
    /\ UNCHANGED <<sInput, sTask, evalCalls, fetchCalls, llmCalls>>
    /\ UNCHANGED <<apiKey, httpVars, agentVars, calcVars, planVars, kbVars>>

NextSearch ==
    \/ SearchCall
    \/ SearchSettle

SearchSpec == InitSearch /\ [][NextSearch]_vars

-----------------------------------------------------------------------------
(* The knowledge base on its own: the registry entry's execute called once *)
(* with a query of at most MaxKeywords fragments, or with an empty input   *)
(* and a task.                                                             *)

\* words of the three documents, in both cases, a word of none of them,
\* and the separators the split pattern sees
KbFragments == {"agentic ", "AI,", "launch ", "Analysis-", "zzyyxx "}

KbQueries == Concatenations(KbFragments, MaxKeywords)

KbTasks == {"", "Plan a Launch", "zz"}

InitKb ==
    /\ apiKey = FALSE
    /\ Quiet
    /\ cInput = ""
    /\ cResult = NoResult
    /\ pTask = ""
    /\ pPlans = <<>>
    /\ SearchAtRest
    /\ \/ kInput \in KbQueries \ {""} /\ kTask = "Plan a Launch"
       \/ kInput = "" /\ kTask \in KbTasks
    /\ kResult = NoResult

\* execute(kInput, {task: kTask}) of the knowledgeBase entry: lines 204 and
\* 50-71; scores: what scoreKnowledgeBase returned for each document
RunKnowledgeBase ==
    /\ kResult = NoResult
    /\ LET handed == ToolInput("knowledgeBase", kInput, kTask) IN
        kResult' = [exec |-> knowledgeBaseTool(handed, kTask, UuidOf(uuid + 1)),
                    scores |-> [n \in 1..Len(KNOWLEDGE_BASE) |->
                                   scoreKnowledgeBase(IF handed # "" THEN handed ELSE kTask,
                                                      KNOWLEDGE_BASE[n])]]
    /\ uuid' = uuid + 1
    /\ UNCHANGED <<kInput, kTask, evalCalls, fetchCalls, llmCalls>>
    /\ UNCHANGED <<apiKey, httpVars, agentVars, calcVars, planVars, searchVars>>

NextKb == RunKnowledgeBase

KbSpec == InitKb /\ [][NextKb]_vars

-----------------------------------------------------------------------------
(* Properties of executePlan.                                              *)

Range(seq) == {seq[i] : i \in 1..Len(seq)}

\* executePlan has been called on a plan
PlanHandedOver == "Executing" \in Range(trail) /\ "plan" \in DOMAIN payload

\* executePlan has returned its executions to runAgentTask
ExecutePlanReturned == "Summarizing" \in Range(trail)

\* the records collected so far: executePlan's array while it runs, what it
\* returned afterwards
Collected == IF ExecutePlanReturned THEN steps ELSE executions

\* `rec` is the record of plan step `step`: it names the step's tool (in
\* the registry's spelling when registered) and its input is the step's
\* description, or the task or nothing in its place
RecordIsFor(rec, step) ==
    /\ ToLowerCase(rec.tool) = ToLowerCase(step.tool)
    /\ rec.tool \in Range(TOOLKIT) \cup {step.tool}
    /\ rec.input \in {Field(step, "description", ""), task, ""}

\* C1: whatever the steps' outcomes, executePlan returns exactly one record
\* per plan step, the i-th record being the one of the i-th step; while it
\* runs, the records collected are those of the steps iterated so far.
C1_OneRecordPerStep ==
    PlanHandedOver =>
        /\ ExecutePlanReturned => Len(steps) = Len(payload.plan)
        /\ pc = "Executing" => Len(executions) = stepIdx - 1
        /\ Len(Collected) <= Len(payload.plan)
        /\ \A i \in 1..Len(Collected) : RecordIsFor(Collected[i], payload.plan[i])

\* a plan of three steps has been executed: a success, a tool failure and
\* an unregistered tool, each with its record
C1_Witness ==
    /\ pc = "Done"
    /\ Len(payload.plan) = 3
    /\ Len(steps) = 3
    /\ \E i, j, k \in 1..3 :
        /\ steps[i].success
        /\ ~steps[j].success /\ steps[j].tool \in Range(TOOLKIT)
        /\ steps[k].tool \notin Range(TOOLKIT)

\* the record of a step whose tool is not registered
IsUnregistered(step) ==
    LET lowerName == ToLowerCase(step.tool)
    IN \A i \in 1..Len(TOOLKIT) : ToolkitLower[i] # lowerName

\* C2: a step whose tool name matches no registered tool gets a record with
\* success = false and a non-empty error, and the executor goes on with the
\* next step: the loop stands right behind the record, and a plan whose
\* execution returns has a record for every step.
C2_UnregisteredToolIsStepFailure ==
    PlanHandedOver =>
        /\ \A i \in 1..Len(Collected) :
            IsUnregistered(payload.plan[i]) =>
                /\ Collected[i].success = FALSE
                /\ "error" \in DOMAIN Collected[i]
                /\ Collected[i].error # ""
                /\ pc = "Executing" /\ i = Len(executions) => stepIdx = i + 1
                /\ ExecutePlanReturned => Len(steps) = Len(payload.plan)

\* an unregistered tool in the plan, and a later step executed after it
C2_Witness ==
    /\ pc = "Done"
    /\ \E i, j \in 1..Len(steps) :
        /\ i < j
        /\ IsUnregistered(payload.plan[i])
        /\ steps[i].error = "Tool browser is not registered."
        /\ steps[j].success

-----------------------------------------------------------------------------
(* Properties of runAgentTask.                                             *)

\* C3: without a credential runAgentTask returns, for every task and
\* whatever the tool steps' outcomes, success = true, a non-empty plan, one
\* steps entry per plan item, the error that names the missing credential
\* and the fixed sentence as final; the run never takes the error exit.
C3_OfflineAlwaysSucceeds ==
    ~apiKey =>
        /\ pc # "Failed"
        /\ outcome # NoOutcome =>
            /\ outcome.success = TRUE
            /\ Len(outcome.plan) >= 1
            /\ Len(outcome.steps) = Len(outcome.plan)
            /\ "error" \in DOMAIN outcome
            /\ outcome.error = KEY_MISSING
            /\ outcome.error # ""
            /\ outcome.final = FINAL_OFFLINE
        /\ response # NoResponse /\ agentCalls > 0 => response.status = 200

\* an offline run has returned, one of its tool steps having failed
C3_Witness ==
    /\ ~apiKey
    /\ pc = "Done"
    /\ outcome # NoOutcome
    /\ \E i \in 1..Len(outcome.steps) : ~outcome.steps[i].success

\* the messages the planning call, the plan execution and the summarizing
\* call throw with
PlanningErrors == {r.message : r \in {x \in LLMPlanResponses : x.kind = "throw"}}
ExecutionErrors == {"plan is not iterable",
                    "Cannot read properties of undefined (reading 'trim')"}
SummaryErrors == {r.message : r \in {x \in LLMFinalResponses : x.kind = "throw"}}

\* C4: with a credential, a throw of planning, plan execution or
\* summarizing makes runAgentTask return success = false with empty plan,
\* steps and final and the thrown message as error; without a throw it
\* returns success = true and no error, with the plan, the records and the
\* summarizer's text.  An outcome with success = false has empty plan,
\* steps and final.
C4_LiveFailureIsEmptyOutcome ==
    /\ apiKey /\ outcome # NoOutcome =>
        /\ pc \in {"Done", "Failed"}
        /\ pc = "Failed" =>
            /\ outcome.success = FALSE
            /\ outcome.plan = <<>> /\ outcome.steps = <<>> /\ outcome.final = ""
            /\ "error" \in DOMAIN outcome
            /\ trail = <<"Planning", "Failed">> => outcome.error \in PlanningErrors
            /\ trail = <<"Planning", "Executing", "Failed">> =>
                   outcome.error \in ExecutionErrors
            /\ trail = <<"Planning", "Executing", "Summarizing", "Failed">> =>
                   outcome.error \in SummaryErrors
        /\ pc = "Done" =>
            /\ outcome.success = TRUE
            /\ "error" \notin DOMAIN outcome
            /\ outcome.plan = payload.plan
            /\ outcome.steps = steps
            /\ outcome.final \in {r.text : r \in {x \in LLMFinalResponses : x.kind = "text"}}
    /\ apiKey /\ pc \in {"Done", "Failed"} => outcome # NoOutcome
    /\ outcome # NoOutcome /\ outcome.success = FALSE =>
        outcome.plan = <<>> /\ outcome.steps = <<>> /\ outcome.final = ""

\* the summarizer threw after two steps had been executed: the records are
\* dropped from the outcome
C4_Witness ==
    /\ apiKey
    /\ pc = "Failed"
    /\ trail = <<"Planning", "Executing", "Summarizing", "Failed">>
    /\ Len(steps) = 2
    /\ outcome.steps = <<>>
    /\ outcome.error = "Request timed out."

\* C5 as the spec states it: every plan handed to the executor, by the
\* LLM strategy or by the heuristic strategy, has between 2 and 4 items.
C5_PlanHasTwoToFourItems ==
    PlanHandedOver => Len(payload.plan) \in 2..4

\* C5: every plan the heuristic strategy hands to the executor has between
\* 1 and FALLBACK_PLAN_LIMIT (3) items, and it has 1 item exactly when the
\* task matches neither keyword set.
C5_HeuristicPlanHasOneToThreeItems ==
    ~apiKey /\ PlanHandedOver =>
        /\ Len(payload.plan) \in 1..FALLBACK_PLAN_LIMIT
        /\ Len(payload.plan) = 1 <=>
              /\ ~MatchesAnalysis(ToLowerCase(task))
              /\ ~MatchesResearch(ToLowerCase(task))

\* the heuristic plan of one step is being executed
C5_Witness ==
    /\ ~apiKey
    /\ pc = "Executing"
    /\ task = "Plan a product launch"
    /\ Len(payload.plan) = 1


-----------------------------------------------------------------------------
(* Properties of the heuristic planner (PlannerSpec).                      *)

ToolsOf(plan) == [i \in 1..Len(plan) |-> plan[i].tool]

IdsOf(plan) == {plan[i].id : i \in 1..Len(plan)}

\* C6: the heuristic plan's tool sequence depends on the task text alone:
\* a calculator step exactly when the lower-cased task matches the analysis
\* keywords, then a webSearch step exactly when it matches the research
\* keywords, then the knowledgeBase step, always present and always last;
\* at most 3 steps, the single knowledgeBase step when neither set matches;
\* repeated calls on one task give the same tool sequence and step count.
C6_HeuristicPlanIsFunctionOfTask ==
    LET lower == ToLowerCase(pTask)
        analysis == MatchesAnalysis(lower)
        research == MatchesResearch(lower)
    IN
    /\ \A n \in 1..Len(pPlans) :
        LET tools == ToolsOf(pPlans[n].plan) IN
        /\ Len(tools) \in 1..3
        /\ tools[Len(tools)] = "knowledgeBase"
        /\ \A i \in 1..(Len(tools) - 1) : tools[i] # "knowledgeBase"
        /\ analysis <=> "calculator" \in Range(tools)
        /\ research <=> "webSearch" \in Range(tools)
        /\ analysis => tools[1] = "calculator"
        /\ research => tools[IF analysis THEN 2 ELSE 1] = "webSearch"
        /\ Len(tools) = 1 + (IF analysis THEN 1 ELSE 0) + (IF research THEN 1 ELSE 0)
        /\ ~analysis /\ ~research => tools = <<"knowledgeBase">>
    /\ \A m, n \in 1..Len(pPlans) :
        /\ ToolsOf(pPlans[m].plan) = ToolsOf(pPlans[n].plan)
        /\ Len(pPlans[m].plan) = Len(pPlans[n].plan)

\* two calls on a task in upper and lower case that matches both keyword
\* sets: the same three tools, other identifiers
C6_Witness ==
    /\ Len(pPlans) = 2
    /\ pTask = "ROI" \o "news"
    /\ ToolsOf(pPlans[1].plan) = <<"calculator", "webSearch", "knowledgeBase">>
    /\ ToolsOf(pPlans[2].plan) = ToolsOf(pPlans[1].plan)
    /\ IdsOf(pPlans[1].plan) \cap IdsOf(pPlans[2].plan) = {}

-----------------------------------------------------------------------------
(* Properties of the run's phases.                                         *)

PhaseOrder == <<"Planning", "Executing", "Summarizing", "Done">>

IsPrefix(a, b) == Len(a) <= Len(b) /\ a = SubSeq(b, 1, Len(a))

\* C7: the phases of a run come in the order Planning, Executing,
\* Summarizing, Done; no tool is invoked before the plan exists; at most
\* one tool invocation is in flight, and it is the one of the step right
\* after the records collected; summarizing begins only with every step's
\* record collected; an error in any phase is the end of the run, with no
\* later phase and nothing in flight.
C7_PhasesInOrder ==
    /\ \/ IsPrefix(trail, PhaseOrder)
       \/ \E k \in 1..3 : trail = SubSeq(PhaseOrder, 1, k) \o <<"Failed">>
    /\ trail # <<>> => pc = trail[Len(trail)]
    /\ trail = <<>> => pc \in {"Idle", "Start"}
    /\ (pending # {} \/ executions # <<>> \/ steps # <<>>
        \/ evalCalls > 0 \/ fetchCalls > 0) =>
            /\ PlanHandedOver
            /\ SubSeq(trail, 1, 2) = <<"Planning", "Executing">>
    /\ Cardinality(pending) <= 1
    /\ \A inv \in pending :
        /\ pc = "Executing"
        /\ inv.idx = Len(executions) + 1
        /\ inv.idx = stepIdx
    /\ pc # "Failed" => evalCalls + fetchCalls <= Len(Collected) + Cardinality(pending)
    /\ "Summarizing" \in Range(trail) =>
        /\ pending = {}
        /\ Len(steps) = Len(payload.plan)
    /\ llmCalls \in 0..2
    /\ llmCalls >= 1 <=> apiKey /\ (payload # NoPayload \/ outcome # NoOutcome
                                    \/ (pc = "Planning" /\ llmCalls = 1))
    /\ llmCalls >= 1 => "Planning" \in Range(trail)
    /\ llmCalls = 2 <=> apiKey /\ "Summarizing" \in Range(trail)
    /\ pc = "Failed" => pending = {} /\ executions = <<>>

\* a run with a credential went through the four phases, with three tool
\* invocations, one of them a fetch
C7_Witness ==
    /\ apiKey
    /\ pc = "Done"
    /\ trail = PhaseOrder
    /\ Len(steps) = 3
    /\ fetchCalls = 1
    /\ evalCalls = 1
    /\ llmCalls = 2

-----------------------------------------------------------------------------
(* Properties of the execution records.                                    *)

ErrorIsSet(rec) == "error" \in DOMAIN rec /\ rec.error # ""

WellFormedRecord(rec) ==
    /\ ErrorIsSet(rec) <=> rec.success = FALSE
    /\ "error" \in DOMAIN rec <=> rec.success = FALSE
    /\ rec.output = "" => rec.success = FALSE

\* C8: every execution record, of a tool or made up by the executor for an
\* unregistered tool, has its error set exactly when success is false, and
\* an empty output only when success is false.
C8_ErrorIffFailure ==
    /\ \A i \in 1..Len(executions) : WellFormedRecord(executions[i])
    /\ \A i \in 1..Len(steps) : WellFormedRecord(steps[i])

\* records of the calculator (failed, with empty output), of the web search
\* (succeeded without a snippet) and of the knowledge base in one run
C8_Witness ==
    /\ Len(steps) = 3
    /\ steps[1].tool = "calculator" /\ steps[1].output = "" /\ ~steps[1].success
    /\ steps[2].tool = "webSearch" /\ steps[2].success
    /\ steps[2].output = "No search snippets returned."
    /\ steps[3].tool = "knowledgeBase" /\ steps[3].success

-----------------------------------------------------------------------------
(* Properties of the calculator (CalcSpec).                                *)

HasUnsafeChar(s) == \E i \in 1..Len(s) : CharAt(s, i) \notin SafeChars

IsBlank(s) == \A i \in 1..Len(s) : CharAt(s, i) \in WhiteSpace

\* C9: a calculator input with a character outside the whitelist gets
\* success = false with the unsupported-characters error, and an empty or
\* white-space input gets success = false with the expression-required
\* error; in both cases the input never reaches the evaluator.
C9_UnsafeInputNeverEvaluated ==
    cResult # NoResult =>
        /\ HasUnsafeChar(cInput) =>
            /\ cResult.exec.success = FALSE
            /\ cResult.exec.error = "Expression contains unsupported characters."
            /\ cResult.evaluated = FALSE
            /\ evalCalls = 0
        /\ IsBlank(cInput) =>
            /\ cResult.exec.success = FALSE
            /\ cResult.exec.error = "Expression required for calculator tool."
            /\ cResult.evaluated = FALSE
            /\ evalCalls = 0
        /\ ~HasUnsafeChar(cInput) /\ ~IsBlank(cInput) =>
            /\ cResult.evaluated = TRUE
            /\ evalCalls = 1

\* the calculator has refused an input that mixes safe and unsafe characters
C9_Witness ==
    /\ cResult # NoResult
    /\ cInput = "2+a"
    /\ cResult.exec.error = "Expression contains unsupported characters."

-----------------------------------------------------------------------------
(* Properties of the POST handler.                                         *)

WellFormedOutcome(o) ==
    /\ {"success", "plan", "steps", "final", "reasoning"} \subseteq DOMAIN o
    /\ o.success \in BOOLEAN

\* the request carries no task the handler accepts: it is missing, not a
\* string, empty or white space
LacksTask(b) ==
    \/ b.kind \in {"null", "noTask", "nonStringTask"}
    \/ b.kind = "stringTask" /\ IsBlank(b.task)

\* C10 as the spec states it: POST always answers with a well-formed
\* outcome; a request whose task is missing, not a string, empty or white
\* space gets status 400 with success = false and the error "Task is
\* required." and runAgentTask is not called; any other request gets the
\* outcome of runAgentTask, with status 200 when it succeeded and 500 when
\* it did not.
C10_PostAnswers ==
    response # NoResponse =>
        /\ WellFormedOutcome(response.body)
        /\ LacksTask(body) =>
            /\ response.status = 400
            /\ response.body.success = FALSE
            /\ response.body.error = "Task is required."
            /\ agentCalls = 0
        /\ body.kind = "stringTask" /\ ~IsBlank(body.task) =>
            /\ agentCalls = 1
            /\ response.body = outcome
            /\ response.status = (IF outcome.success THEN 200 ELSE 500)


-----------------------------------------------------------------------------
(* Properties of the web search (SearchSpec).                              *)

\* the query after the fallback to the task
SearchQuery == IF sInput # "" THEN sInput ELSE sTask

Is2xx(resp) == resp.kind = "http" /\ resp.status \in 200..299

\* the body of a 2xx answer decoded to a JSON object
IsDecoded(resp) == Is2xx(resp) /\ resp.json /\ resp.data # JsonNull

\* the non-empty Text values of a list of topics, in order
NonEmptyTexts(items) ==
    LET withText == SelectSeq(items, LAMBDA x : "Text" \in DOMAIN x /\ x.Text # "")
    IN [n \in 1..Len(withText) |-> withText[n].Text]

\* each topic's text followed at once by the texts of its sub-topics
RECURSIVE TextsInPlace(_)
TextsInPlace(topics) ==
    IF topics = <<>> THEN <<>>
    ELSE LET last == topics[Len(topics)]
         IN TextsInPlace(SubSeq(topics, 1, Len(topics) - 1))
            \o NonEmptyTexts(<<last>>)
            \o (IF "Topics" \in DOMAIN last THEN NonEmptyTexts(last.Topics) ELSE <<>>)

\* the abstract text first, then the related-topic texts
ClaimedSnippets(data) ==
    (IF "AbstractText" \in DOMAIN data /\ data.AbstractText # ""
     THEN <<data.AbstractText>> ELSE <<>>)
    \o (IF "RelatedTopics" \in DOMAIN data THEN TextsInPlace(data.RelatedTopics) ELSE <<>>)

FirstFour(seq) == SubSeq(seq, 1, IF Len(seq) < 4 THEN Len(seq) ELSE 4)

\* the output claimed for a decoded body
ClaimedOutput(data) ==
    IF ClaimedSnippets(data) = <<>> THEN "No search snippets returned."
    ELSE JoinLines(FirstFour(ClaimedSnippets(data)))

\* a blank query makes no fetch and fails; a non-2xx answer fails with the
\* status in the error
SearchFailures ==
    /\ IsBlank(SearchQuery) => fetchCalls = 0 /\ sPc # "fetching"
    /\ sPc = "done" /\ IsBlank(SearchQuery) =>
          /\ sResult.success = FALSE
          /\ ErrorIsSet(sResult)
    /\ sPc = "done" /\ sResp.kind = "http" /\ ~Is2xx(sResp) =>
          /\ sResult.success = FALSE
          /\ ErrorIsSet(sResult)
          /\ Includes(sResult.error, ToString(sResp.status))

\* C11 as stated: a blank query (after the fallback to the task) fails
\* without a fetch; a non-2xx answer fails with the HTTP status in the
\* error; on every 2xx answer the search succeeds and its output is the
\* first four collected snippets (abstract first, then the topic texts in
\* order, sub-topics in place) joined by newlines, or exactly
\* "No search snippets returned." when there is none.
C11_WebSearch ==
    /\ SearchFailures
    /\ sPc = "done" /\ sResp.kind = "http" /\ Is2xx(sResp) =>
          /\ sResult.success = TRUE
          /\ IsDecoded(sResp)
          /\ sResult.output = ClaimedOutput(sResp.data)

\* C11 amended: as C11, but the output rule is for the 2xx answers whose
\* body decodes to a JSON object; a 2xx answer whose body does not decode,
\* or decodes to null, fails with output "Search failed." and the
\* exception's message as the error.
C11_WebSearchDecoded ==
    /\ SearchFailures
    /\ sPc = "done" /\ sResp.kind = "http" /\ IsDecoded(sResp) =>
          /\ sResult.success = TRUE
          /\ "error" \notin DOMAIN sResult
          /\ sResult.output = ClaimedOutput(sResp.data)
    /\ sPc = "done" /\ sResp.kind = "http" /\ Is2xx(sResp) /\ ~IsDecoded(sResp) =>
          /\ sResult.success = FALSE
          /\ sResult.output = "Search failed."
          /\ ErrorIsSet(sResult)

\* the query fell back to the task, and the decoded answer carries more
\* than four snippets, some of them of sub-topics
C11_Witness ==
    /\ sPc = "done"
    /\ sInput = ""
    /\ sResp.kind = "http"
    /\ IsDecoded(sResp)
    /\ sResult.success
    /\ Len(ClaimedSnippets(sResp.data)) > 4
    /\ \E n \in 1..Len(sResp.data.RelatedTopics) :
          /\ "Topics" \in DOMAIN sResp.data.RelatedTopics[n]
          /\ NonEmptyTexts(sResp.data.RelatedTopics[n].Topics) # <<>>


-----------------------------------------------------------------------------
(* Properties of the inputs of the steps.                                  *)

\* what a registered tool is to be handed for `step` in a run on task `t`:
\* the step's description, or the task in place of an empty description
\* for the two tools that fall back to it; no record occurs in it
HandedInput(step, t) ==
    LET description == IF "description" \in DOMAIN step THEN step.description ELSE ""
    IN IF ToLowerCase(step.tool) = "calculator" THEN description
       ELSE IF description = "" THEN t
       ELSE description

\* C12: the input handed to the tool of step j is a function of that step's
\* description and of the task alone, whatever the outputs, successes and
\* failures of the steps before j: the invocation in flight and every
\* record of a registered tool carry HandedInput of the step and the task,
\* so that two runs with the same plan and task hand over equal inputs.
C12_InputDependsOnStepAndTaskOnly ==
    PlanHandedOver =>
        /\ \A inv \in pending :
            /\ inv.idx \in 1..Len(payload.plan)
            /\ InvocationInput(inv) = HandedInput(payload.plan[inv.idx], task)
        /\ \A j \in 1..Len(Collected) :
            ~IsUnregistered(payload.plan[j]) =>
                Collected[j].input = HandedInput(payload.plan[j], task)

\* a web search failed on the answer 503, and a later step of a registered
\* tool, whose description is empty, was handed the task and succeeded
C12_Witness ==
    /\ pc = "Done"
    /\ \E i, j \in 1..Len(steps) :
        /\ i < j
        /\ steps[i].tool = "webSearch"
        /\ ~steps[i].success
        /\ steps[i].error = "HTTP 503"
        /\ payload.plan[j].description = ""
        /\ steps[j].input = task
        /\ steps[j].success


-----------------------------------------------------------------------------
(* Properties of the knowledge base (KbSpec).                              *)

\* the query after the fallback to the task
KbQuery == IF kInput # "" THEN kInput ELSE kTask

\* the set of keywords of a query: the maximal runs of letters and digits
\* of the lower-cased query
KeywordSet(query) == Range(SplitKeywords(ToLowerCase(query)))

DocText(doc) == ToLowerCase(doc.title \o " " \o doc.content)

\* the number of distinct keywords that occur in the document
DistinctScore(query, doc) ==
    Cardinality({w \in KeywordSet(query) : Includes(DocText(doc), w)})

RenderDoc(doc) == BULLET \o " " \o doc.title \o ": " \o doc.content

\* the lists of documents the claim allows the tool to keep: at most two,
\* all with a score above zero, by descending score, no document left out
\* that scores higher than a kept one, none left out while a place is free
KeptLists(query) ==
    LET docs == 1..Len(KNOWLEDGE_BASE)
        score(n) == DistinctScore(query, KNOWLEDGE_BASE[n])
        positive == {n \in docs : score(n) > 0}
        lists == {<<>>} \cup {<<a>> : a \in docs}
                 \cup {pair \in docs \X docs : pair[1] # pair[2]}
    IN {l \in lists :
          /\ Range(l) \subseteq positive
          /\ Len(l) = (IF Cardinality(positive) < 2 THEN Cardinality(positive) ELSE 2)
          /\ \A x \in 1..Len(l) : \A y \in x..Len(l) : score(l[x]) >= score(l[y])
          /\ \A n \in positive \ Range(l) : \A x \in 1..Len(l) : score(l[x]) >= score(n)}

\* C13: a document's score is the number of distinct keywords of the
\* lower-cased query (its maximal runs of letters and digits, each counted
\* once) that occur in the lower-cased title and content; the tool keeps at
\* most the top 2 documents by descending score, all with a score above
\* zero, outputs "No relevant knowledge snippets found." when none scores
\* above zero, and always returns success = true.
C13_KnowledgeBaseScoring ==
    kResult # NoResult =>
        /\ \A n \in 1..Len(KNOWLEDGE_BASE) :
              kResult.scores[n] = DistinctScore(KbQuery, KNOWLEDGE_BASE[n])
        /\ kResult.exec.success = TRUE
        /\ \E l \in KeptLists(KbQuery) :
              kResult.exec.output =
                  (IF l = <<>> THEN "No relevant knowledge snippets found."
                   ELSE JoinLines([x \in 1..Len(l) |-> RenderDoc(KNOWLEDGE_BASE[l[x]])]))


-----------------------------------------------------------------------------
(* Properties of the calculator step of the heuristic plan.                *)

UNSUPPORTED == "Expression contains unsupported characters."

\* C14: without a credential, the record of every calculator step of the
\* plan is a failure with the error "Expression contains unsupported
\* characters.": its input is the step's prose description, not the task,
\* and nothing is evaluated; the outcome of such a run has success = true
\* all the same, and POST answers 200.
C14_OfflineCalculatorStepFails ==
    ~apiKey /\ PlanHandedOver =>
        /\ evalCalls = 0
        /\ \A i \in 1..Len(Collected) :
            payload.plan[i].tool = "calculator" =>
                /\ Collected[i].tool = "calculator"
                /\ Collected[i].success = FALSE
                /\ ErrorIsSet(Collected[i])
                /\ Collected[i].error = UNSUPPORTED
                /\ Collected[i].input = payload.plan[i].description
                /\ Collected[i].input # task
        /\ outcome # NoOutcome
           /\ (\E i \in 1..Len(payload.plan) : payload.plan[i].tool = "calculator") =>
                /\ outcome.success = TRUE
                /\ \E i \in 1..Len(outcome.steps) :
                      /\ outcome.steps[i].tool = "calculator"
                      /\ outcome.steps[i].success = FALSE
                /\ response # NoResponse => response.status = 200

\* the offline run of a task that carries an arithmetic expression has
\* returned: its calculator step failed on the prose, its outcome succeeded
C14_Witness ==
    /\ ~apiKey
    /\ pc = "Done"
    /\ task = "Calculate ROI: 2+2"
    /\ outcome.success
    /\ outcome.steps[1].tool = "calculator"
    /\ outcome.steps[1].error = UNSUPPORTED
    /\ ~outcome.steps[1].success
    /\ response # NoResponse

====
